---- MODULE Spec2Model ----
(***************************************************************************)
(* Execution of the packaging manifest setup.py as a state machine.        *)
(*                                                                         *)
(* The manifest is a straight-line script: it imports the packaging tool,  *)
(* constructs one Extension descriptor (module1), evaluates the keyword    *)
(* arguments of setup(...) in order (among them open("README.rst").read()) *)
(* and then calls setup.  Everything that happens inside setup belongs to  *)
(* the external packaging tool and the compiler; the manifest places no    *)
(* constraint on it, so the tool is modelled as an environment whose       *)
(* effects are unconstrained once control has been passed to it.           *)
(***************************************************************************)
EXTENDS Integers, Sequences, FiniteSets, TLC

\* Longest README.rst content (in bytes) that is enumerated.
MaxLen == 3

\* Abstract bytes of README.rst: an ordinary character, carriage return,
\* line feed, and a byte sequence the locale encoding cannot decode.
Bytes == {"a", "CR", "LF", "BAD"}

\* Commands the packaging tool may be given on the command line.
Commands == {"build", "install", "sdist"}

\* Names under which the tool may produce a loadable artifact.
ArtifactNames == {"DemoPackage", "other"}

Contents == UNION {[1..n -> Bytes] : n \in 0..MaxLen}

VARIABLES
    pc,               \* position of the script
    cmd,              \* command line argument handed to the tool
    distutilsPresent, \* whether "distutils.core" is importable
    README,           \* README.rst on disk: [exists, content]
    module1,          \* the Extension descriptor bound at lines 4-9
    handle,           \* OS handle of README.rst: "none", "open", "closed"
    refs,             \* references held to the file object
    long_description, \* text obtained by .read()
    kwargs,           \* keyword arguments received by setup
    setupCalls,       \* number of times setup has been entered
    error,            \* exception that ended the run, "none" otherwise
    raisedIn,         \* "manifest", "tool" or "none"
    srcChecked,       \* tool effects (unconstrained by the manifest)
    compiled,
    registered,
    artifacts

vars == <<pc, cmd, distutilsPresent, README, module1, handle, refs,
          long_description, kwargs, setupCalls, error, raisedIn,
          srcChecked, compiled, registered, artifacts>>

toolVars == <<srcChecked, compiled, registered, artifacts>>

\* The value module1 holds before line 4 has run.
NoExt == [name |-> "", define_macros |-> <<>>, include_dirs |-> <<>>,
          sources |-> <<>>]

\* The value setup has received before it is called.
NoArgs == [name |-> "", version |-> "", description |-> "", author |-> "",
           author_email |-> "", url |-> "", long_description |-> <<>>,
           ext_modules |-> <<>>]

\* Extension("DemoPackage", define_macros=..., include_dirs=..., sources=...)
Extension == [name |-> "DemoPackage",
              define_macros |-> << <<"USE_PRINTER", "1">> >>,
              include_dirs |-> <<"include">>,
              sources |-> <<"src/demo.c">>]

\* Text-mode read with universal newlines: "\r\n" and a lone "\r" both
\* become "\n"; every other decodable character is kept.
RECURSIVE Translate(_)
Translate(s) ==
    IF s = <<>> THEN <<>>
    ELSE IF Head(s) = "CR"
         THEN IF Len(s) > 1 /\ s[2] = "LF"
              THEN <<"LF">> \o Translate(SubSeq(s, 3, Len(s)))
              ELSE <<"LF">> \o Translate(Tail(s))
         ELSE <<Head(s)>> \o Translate(Tail(s))

\* Strict decoding fails on any undecodable byte.
Decodable(s) == \A i \in 1..Len(s) : s[i] # "BAD"

Init ==
    /\ pc = "start"
    /\ cmd \in Commands
    /\ distutilsPresent \in BOOLEAN
    /\ README \in ({[exists |-> TRUE, content |-> c] : c \in Contents}
                   \cup {[exists |-> FALSE, content |-> <<>>]})
    /\ module1 = NoExt
    /\ handle = "none"
    /\ refs = 0
    /\ long_description = <<>>
    /\ kwargs = NoArgs
    /\ setupCalls = 0
    /\ error = "none"
    /\ raisedIn = "none"
    /\ srcChecked = FALSE
    /\ compiled = FALSE
    /\ registered = FALSE
    /\ artifacts = {}

\* Line 1: from distutils.core import Extension, setup
Import ==
    /\ pc = "start"
    /\ IF distutilsPresent
       THEN /\ pc' = "imported"
            /\ UNCHANGED <<error, raisedIn>>
       ELSE /\ pc' = "raised"
            /\ error' = "ModuleNotFoundError"
            /\ raisedIn' = "manifest"
    /\ UNCHANGED <<cmd, distutilsPresent, README, module1, handle, refs,
                   long_description, kwargs, setupCalls, toolVars>>

\* Lines 4-9: module1 = Extension(...)
ConstructExtension ==
    /\ pc = "imported"
    /\ module1' = Extension
    /\ pc' = "constructed"
    /\ UNCHANGED <<cmd, distutilsPresent, README, handle, refs,
                   long_description, kwargs, setupCalls, error, raisedIn,
                   toolVars>>

\* A variant of line 18 that swallows the missing file and carries on with
\* an empty description.
OpenReadmeFallback ==
    /\ pc = "constructed"
    /\ IF README.exists
       THEN /\ handle' = "open"
            /\ refs' = 1
            /\ pc' = "opened"
       ELSE /\ pc' = "read"
            /\ UNCHANGED <<handle, refs>>
    /\ UNCHANGED <<cmd, distutilsPresent, README, module1, long_description,
                   kwargs, setupCalls, error, raisedIn, toolVars>>

\* A variant of line 18 that leaves the missing file to the tool: the
\* description stays empty and the failure is raised from inside setup.
OpenReadmeDeferred ==
    /\ pc = "constructed"
    /\ IF README.exists
       THEN /\ handle' = "open"
            /\ refs' = 1
            /\ pc' = "opened"
            /\ UNCHANGED <<error, raisedIn, setupCalls>>
       ELSE /\ pc' = "raised"
            /\ setupCalls' = setupCalls + 1
            /\ error' = "FileNotFoundError"
            /\ raisedIn' = "tool"
            /\ UNCHANGED <<handle, refs>>
    /\ UNCHANGED <<cmd, distutilsPresent, README, module1, long_description,
                   kwargs, toolVars>>

\* Line 18, first half: open("README.rst")
OpenReadme ==
    /\ pc = "constructed"
    /\ IF README.exists
       THEN /\ handle' = "open"
            /\ refs' = 1
            /\ pc' = "opened"
            /\ UNCHANGED <<error, raisedIn>>
       ELSE /\ pc' = "raised"
            /\ error' = "FileNotFoundError"
            /\ raisedIn' = "manifest"
            /\ UNCHANGED <<handle, refs>>
    /\ UNCHANGED <<cmd, distutilsPresent, README, module1, long_description,
                   kwargs, setupCalls, toolVars>>

\* A variant of .read() that returns the bytes of the file untranslated.
ReadReadmeRaw ==
    /\ pc = "opened"
    /\ refs' = 0
    /\ IF Decodable(README.content)
       THEN /\ long_description' = README.content
            /\ pc' = "read"
            /\ UNCHANGED <<error, raisedIn>>
       ELSE /\ pc' = "raised"
            /\ error' = "UnicodeDecodeError"
            /\ raisedIn' = "manifest"
            /\ UNCHANGED long_description
    /\ UNCHANGED <<cmd, distutilsPresent, README, module1, handle, kwargs,
                   setupCalls, toolVars>>

\* Line 18, second half: .read() on the temporary file object.  The file
\* object is bound to no name, so the last reference to it is dropped when
\* the call returns or raises; the handle itself is never closed here.
ReadReadme ==
    /\ pc = "opened"
    /\ refs' = 0
    /\ IF Decodable(README.content)
       THEN /\ long_description' = Translate(README.content)
            /\ pc' = "read"
            /\ UNCHANGED <<error, raisedIn>>
       ELSE /\ pc' = "raised"
            /\ error' = "UnicodeDecodeError"
            /\ raisedIn' = "manifest"
            /\ UNCHANGED long_description
    /\ UNCHANGED <<cmd, distutilsPresent, README, module1, handle, kwargs,
                   setupCalls, toolVars>>

\* The interpreter reclaims the unreferenced file object and closes its
\* handle.  When this happens is left to the interpreter: at once under
\* reference counting, at some later collection (or never before the script
\* ends) otherwise.
Collect ==
    /\ handle = "open"
    /\ refs = 0
    /\ handle' = "closed"
    /\ UNCHANGED <<pc, cmd, distutilsPresent, README, module1, refs,
                   long_description, kwargs, setupCalls, error, raisedIn,
                   toolVars>>

\* A variant of the call that lists the descriptor twice.
CallSetupDup ==
    /\ pc = "read"
    /\ kwargs' = [name |-> "DemoPackage", version |-> "1.0",
                  description |-> "This is a demo package",
                  author |-> "<first> <last>",
                  author_email |-> "person@site.com",
                  url |-> "https://docs.python.org/extending/buildling",
                  long_description |-> long_description,
                  ext_modules |-> <<module1, module1>>]
    /\ setupCalls' = setupCalls + 1
    /\ pc' = "in_setup"
    /\ UNCHANGED <<cmd, distutilsPresent, README, module1, handle, refs,
                   long_description, error, raisedIn, toolVars>>

\* Lines 11-20: setup(name=..., ..., long_description=..., ext_modules=[module1])
CallSetup ==
    /\ pc = "read"
    /\ kwargs' = [name |-> "DemoPackage", version |-> "1.0",
                  description |-> "This is a demo package",
                  author |-> "<first> <last>",
                  author_email |-> "person@site.com",
                  url |-> "https://docs.python.org/extending/buildling",
                  long_description |-> long_description,
                  ext_modules |-> <<module1>>]
    /\ setupCalls' = setupCalls + 1
    /\ pc' = "in_setup"
    /\ UNCHANGED <<cmd, distutilsPresent, README, module1, handle, refs,
                   long_description, error, raisedIn, toolVars>>

manifestVars == <<pc, cmd, distutilsPresent, README, module1, handle, refs,
                  long_description, kwargs, setupCalls, error, raisedIn>>

\* Steps of the external tool while setup is running.  None of them is
\* code of the manifest; each is enabled whenever control is inside setup.
ToolCheckSources ==
    /\ pc = "in_setup"
    /\ ~srcChecked
    /\ srcChecked' = TRUE
    /\ UNCHANGED <<manifestVars, compiled, registered, artifacts>>

ToolCompile ==
    /\ pc = "in_setup"
    /\ ~compiled
    /\ compiled' = TRUE
    /\ UNCHANGED <<manifestVars, srcChecked, registered, artifacts>>

ToolProduceArtifact ==
    /\ pc = "in_setup"
    /\ \E n \in ArtifactNames \ artifacts : artifacts' = artifacts \cup {n}
    /\ UNCHANGED <<manifestVars, srcChecked, compiled, registered>>

ToolRegister ==
    /\ pc = "in_setup"
    /\ ~registered
    /\ registered' = TRUE
    /\ UNCHANGED <<manifestVars, srcChecked, compiled, artifacts>>

\* setup returns; the script has no statement after the call.
ToolReturn ==
    /\ pc = "in_setup"
    /\ pc' = "returned"
    /\ UNCHANGED <<cmd, distutilsPresent, README, module1, handle, refs,
                   long_description, kwargs, setupCalls, error, raisedIn,
                   toolVars>>

\* setup raises; the script has no handler around the call.
ToolRaise ==
    /\ pc = "in_setup"
    /\ pc' = "raised"
    /\ error' = "ToolError"
    /\ raisedIn' = "tool"
    /\ UNCHANGED <<cmd, distutilsPresent, README, module1, handle, refs,
                   long_description, kwargs, setupCalls, toolVars>>

Next ==
    \/ Import
    \/ ConstructExtension
    \/ OpenReadme
    \/ ReadReadme
    \/ Collect
    \/ CallSetup
    \/ ToolCheckSources
    \/ ToolCompile
    \/ ToolProduceArtifact
    \/ ToolRegister
    \/ ToolReturn
    \/ ToolRaise

Spec == Init /\ [][Next]_vars

TypeOK ==
    /\ pc \in {"start", "imported", "constructed", "opened", "read",
               "in_setup", "returned", "raised"}
    /\ handle \in {"none", "open", "closed"}
    /\ refs \in 0..1
    /\ setupCalls \in 0..1
    /\ raisedIn \in {"none", "manifest", "tool"}

\* The script has run to its end: setup returned, or an exception left it.
Finished == pc \in {"returned", "raised"}

\* C6 (as stated): whenever setup has been invoked, the long_description
\* it received is the verbatim content of README.rst and is non-empty.
C6_VerbatimNonEmpty ==
    setupCalls > 0 =>
        /\ kwargs.long_description = README.content
        /\ kwargs.long_description # <<>>

\* C6 (amended): whenever setup has been invoked, README.rst existed and
\* was decodable, and the long_description received is its content as read
\* in text mode (every "\r\n" and lone "\r" replaced by "\n"); it is
\* non-empty exactly when README.rst is non-empty.
C6_TextModeContent ==
    setupCalls > 0 =>
        /\ README.exists
        /\ Decodable(README.content)
        /\ kwargs.long_description = Translate(README.content)
        /\ (kwargs.long_description = <<>>) <=> (README.content = <<>>)

\* setup is running on a README.rst that contains a carriage return.
C6_Witness ==
    /\ pc = "in_setup"
    /\ setupCalls = 1
    /\ \E i \in 1..Len(README.content) : README.content[i] = "CR"
    /\ kwargs.long_description # README.content

\* C7 (as stated): if README.rst is absent, the error that ends the run is
\* raised by the tool, after control has passed to it.
C7_RaisedByTool ==
    (~README.exists /\ pc = "raised") =>
        (raisedIn = "tool" /\ setupCalls > 0)

\* C7 (amended): if README.rst is absent, the run never enters setup and
\* never returns normally; when it ends, it ends in an error raised while
\* the manifest itself is executing (the FileNotFoundError of its own
\* open() call, or the failed import before it), and nothing in the
\* manifest handles it.
C7_RaisedInManifest ==
    ~README.exists =>
        /\ pc \in {"start", "imported", "constructed", "raised"}
        /\ setupCalls = 0
        /\ pc = "raised" =>
              /\ raisedIn = "manifest"
              /\ error \in {"FileNotFoundError", "ModuleNotFoundError"}
              /\ module1 # NoExt => error = "FileNotFoundError"

\* The run ended on the missing README.rst.
C7_Witness ==
    /\ ~README.exists
    /\ pc = "raised"
    /\ error = "FileNotFoundError"
    /\ raisedIn = "manifest"

C9_ReadBeforeSetup ==
    /\ handle # "none" => module1 = Extension
    /\ setupCalls > 0 => (handle # "none" /\ refs = 0)
    /\ ~README.exists =>
          /\ setupCalls = 0
          /\ ~srcChecked
          /\ ~compiled
          /\ ~registered
          /\ artifacts = {}

\* A run of a command other than build ended on the missing README.rst
\* after the descriptor had been constructed.
C9_Witness ==
    /\ ~README.exists
    /\ cmd # "build"
    /\ pc = "raised"
    /\ module1 = Extension
    /\ artifacts = {}

\* C10: setup receives exactly one extension descriptor, the descriptor is
\* unchanged from its construction to its consumption, and it is consumed
\* at most once per run.
C10_OneDescriptorOnce ==
    /\ [](setupCalls > 0 =>
            /\ Len(kwargs.ext_modules) = 1
            /\ kwargs.ext_modules[1] = Extension
            /\ module1 = Extension)
    /\ [][/\ (module1 # NoExt /\ setupCalls = 0) => module1' = module1
          /\ setupCalls' <= 1
          /\ setupCalls > 0 => kwargs' = kwargs]_vars

\* setup has consumed the descriptor and returned.
C10_Witness ==
    /\ pc = "returned"
    /\ setupCalls = 1
    /\ kwargs.ext_modules = <<Extension>>

====
